---- MODULE Spec2Model ----
(***************************************************************************)
(* Model of the agri-link marketplace canister                             *)
(* (src/src/dfinity_js_backend/src/index.ts).                              *)
(*                                                                         *)
(* The canister keeps four StableBTreeMaps (users, products, orders,       *)
(* reviews) and exposes update calls.  The host runs one call at a time;   *)
(* a call that returns (Ok or Err) commits every insert it made, a call    *)
(* that throws (a trap) commits nothing.  One action models one call.      *)
(*                                                                         *)
(* Keys are uuids: a new key is any key not in use, and values() lists a   *)
(* map in key order.  Keys are modelled as the integers 1..Max; the id 0   *)
(* stands for the empty text "", which is never a key.                     *)
(***************************************************************************)
EXTENDS Integers, Sequences, FiniteSets, TLC

\* ---------------------------------------------------------------- bounds
MaxUsers == 1
MaxProducts == 1
MaxOrders == 1
MaxReviews == 1
MaxCart == 2
MaxQuantity == 2
MaxStock == 3
MaxPrice == 2
MaxEscrow == 1

\* ------------------------------------------------------- program constants
MinRating == 1
MaxRating == 5

\* ------------------------------------------------------------------ inputs
Principals == {"alice", "bob"}

UserRole == {"Consumer", "Seller"}

UserIds == 1..MaxUsers
ProductIds == 1..MaxProducts
OrderIds == 1..MaxOrders
ReviewIds == 1..MaxReviews

\* product ids a caller may send: the keys, and 0 for the empty text
ProductIdInputs == 0..MaxProducts

\* emails as sequences of characters, so that isValidEmail is computed
GoodEmail == <<"a", "@", "b", ".", "c">>

\* registerUser payloads: a complete one per role, and one per failed check
UserPayloads ==
    { [name |-> "ann", email |-> GoodEmail, role |-> "Seller"],
      [name |-> "ann", email |-> GoodEmail, role |-> "Consumer"],
      [name |-> "", email |-> GoodEmail, role |-> "Seller"],
      [name |-> "ann", email |-> << >>, role |-> "Seller"],
      [name |-> "ann", email |-> <<"a", "@", "b">>, role |-> "Consumer"] }

\* addProduct payloads: a complete one, and one per missing field
ProductPayloads ==
    { [name |-> "maize", description |-> "fresh", price |-> MaxPrice, stock |-> MaxStock],
      [name |-> "", description |-> "fresh", price |-> MaxPrice, stock |-> MaxStock],
      [name |-> "maize", description |-> "", price |-> MaxPrice, stock |-> MaxStock],
      [name |-> "maize", description |-> "fresh", price |-> 0, stock |-> MaxStock],
      [name |-> "maize", description |-> "fresh", price |-> MaxPrice, stock |-> 0] }

\* cart lines (the price a line carries is never read by checkout)
CartItems ==
    { [productId |-> p, quantity |-> q] : p \in ProductIds, q \in 1..MaxQuantity }
        \cup { [productId |-> 0, quantity |-> 1] }

Carts == UNION { [1..n -> CartItems] : n \in 0..MaxCart }

\* addReview payloads
ReviewPayloads ==
    { [productId |-> p, rating |-> r, comment |-> "good"] :
          p \in ProductIds, r \in {0, 4, MaxRating + 1} }
        \cup { [productId |-> p, rating |-> 4, comment |-> ""] : p \in ProductIds }
        \cup { [productId |-> 0, rating |-> 4, comment |-> "good"] }

\* texts sent where the code calls BigInt(text)
AmountTexts == {"-1", "0", "1", "abc"}

BuyerAddresses == {"", "buyer-1"}

\* texts sent to update_product_status
StatusTexts == {"sold"}

\* texts sent to rate_product
RatingTexts == {"4"}

\* texts sent to update_product_price
PriceTexts == {"2"}

\* ------------------------------------------------------------------- state
VARIABLES
    usersStorage,       \* user id -> User
    productsStorage,    \* product id -> Product
    ordersStorage,      \* order id -> Order
    reviewsStorage,     \* review id -> Review
    storeChecksTypes,   \* whether insert rejects a value outside its Candid type
    result              \* what the last call returned to its caller

vars ==
    << usersStorage, productsStorage, ordersStorage, reviewsStorage,
       storeChecksTypes, result >>

\* ------------------------------------------------------------- JS values
\* Opt values are objects ({None: null}, {Some: x}); texts are strings.
None == [type |-> "object", val |-> "None"]

Str(s) == [type |-> "string", val |-> s]

\* JavaScript truthiness of a value used as a condition: every object is
\* truthy, a string is truthy unless empty.
Truthy(v) == v.type = "object" \/ v.val # ""

\* BigInt(text): the integer a decimal text denotes; the empty text is 0n;
\* any other text throws a SyntaxError.
IsBigIntText(t) == t \in {"-2", "-1", "", "0", "1", "2", "3", "4"}

BigInt(t) ==
    CASE t = "-2" -> -2
      [] t = "-1" -> -1
      [] t = "" -> 0
      [] t = "0" -> 0
      [] t = "1" -> 1
      [] t = "2" -> 2
      [] t = "3" -> 3
      [] t = "4" -> 4

\* nat64 as declared for stock, price, escrowBalance, rating, totalAmount
\* (the upper end, 2^64, is far above every amount of the model)
IsNat64(n) == n >= 0

\* ---------------------------------------------------------------- results
Ok(variant, text) == [ok |-> TRUE, variant |-> variant, text |-> text]

\* Err({ Variant: message }): the state keeps the variant; the message is
\* written at each return below and not kept
Err(variant, text) == [ok |-> FALSE, variant |-> variant, text |-> ""]

\* the call threw: the host rolls the call's writes back and rejects it
Trapped == [ok |-> FALSE, variant |-> "Trap", text |-> ""]

\* StableBTreeMap.insert of a record holding `wellTyped` fields: a store
\* that checks the declared Candid type throws on a value outside it.
InsertThrows(wellTyped) == storeChecksTypes /\ ~wellTyped

Insert(store, key, value) ==
    [k \in DOMAIN store \cup {key} |-> IF k = key THEN value ELSE store[k]]

\* ---------------------------------------------------------------- helpers
NotSpaceOrAt(s, from, to) ==
    /\ from <= to
    /\ \A k \in from..to : s[k] \notin {" ", "@"}

\* /^[^\s@]+@[^\s@]+\.[^\s@]+$/
isValidEmail(email) ==
    \E i \in 1..Len(email), j \in 1..Len(email) :
        /\ email[i] = "@"
        /\ email[j] = "."
        /\ NotSpaceOrAt(email, 1, i - 1)
        /\ NotSpaceOrAt(email, i + 1, j - 1)
        /\ NotSpaceOrAt(email, j + 1, Len(email))

\* users.find over values(): the first user, in key order, owned by principal
UsersOf(principal) == {u \in DOMAIN usersStorage : usersStorage[u].owner = principal}

FirstKey(keys) == CHOOSE k \in keys : \A other \in keys : k <= other

getUserByPrincipal(principal) ==
    IF UsersOf(principal) = {}
    THEN [ok |-> FALSE, err |-> Err("NotFound", "User not found")]
    ELSE [ok |-> TRUE, id |-> FirstKey(UsersOf(principal)),
          user |-> usersStorage[FirstKey(UsersOf(principal))]]

isUserSeller(principal) ==
    IF getUserByPrincipal(principal).ok
    THEN [ok |-> TRUE, seller |-> getUserByPrincipal(principal).user.role = "Seller"]
    ELSE getUserByPrincipal(principal)

\* ------------------------------------------------------------------- Init
Init ==
    /\ usersStorage = << >>
    /\ productsStorage = << >>
    /\ ordersStorage = << >>
    /\ reviewsStorage = << >>
    /\ storeChecksTypes \in BOOLEAN
    /\ result = Ok("Init", "")

\* ------------------------------------------------------------------ users
registerUser(caller, payload) ==
    /\ UNCHANGED << productsStorage, ordersStorage, reviewsStorage, storeChecksTypes >>
    /\ IF payload.name = "" \/ payload.email = << >>
       THEN /\ result' = Err("InvalidPayload", "Ensure 'name', 'email', and 'role' are provided.")
            /\ UNCHANGED usersStorage
       ELSE IF ~isValidEmail(payload.email)
       THEN /\ result' = Err("InvalidPayload", "Invalid email address")
            /\ UNCHANGED usersStorage
       ELSE IF \E u \in DOMAIN usersStorage : usersStorage[u].email = payload.email
       THEN /\ result' = Err("Error", "User with this email already exists")
            /\ UNCHANGED usersStorage
       ELSE \E userId \in UserIds \ DOMAIN usersStorage :
            /\ usersStorage' =
                 Insert(usersStorage, userId,
                        [owner |-> caller, email |-> payload.email, role |-> payload.role])
            /\ result' = Ok("User", "")

\* payload.role is a variant object, always truthy: the role is always replaced
updateUserProfile(caller, payload) ==
    /\ UNCHANGED << productsStorage, ordersStorage, reviewsStorage, storeChecksTypes >>
    /\ IF ~getUserByPrincipal(caller).ok
       THEN /\ result' = getUserByPrincipal(caller).err
            /\ UNCHANGED usersStorage
       ELSE IF payload.email # << >> /\ ~isValidEmail(payload.email)
       THEN /\ result' = Err("InvalidPayload", "Invalid email address")
            /\ UNCHANGED usersStorage
       ELSE /\ usersStorage' =
                 Insert(usersStorage, getUserByPrincipal(caller).id,
                        [owner |-> caller,
                         email |-> IF payload.email # << >> THEN payload.email
                                   ELSE getUserByPrincipal(caller).user.email,
                         role |-> payload.role])
            /\ result' = Ok("User", "")

\* --------------------------------------------------------------- products
addProduct(caller, payload) ==
    /\ UNCHANGED << usersStorage, ordersStorage, reviewsStorage, storeChecksTypes >>
    /\ IF ~isUserSeller(caller).ok
       THEN /\ result' = isUserSeller(caller).err
            /\ UNCHANGED productsStorage
       ELSE IF ~isUserSeller(caller).seller
       THEN /\ result' = Err("Error", "Only sellers can add products")
            /\ UNCHANGED productsStorage
       ELSE IF \/ payload.name = "" \/ payload.description = ""
               \/ payload.price = 0 \/ payload.stock = 0
       THEN /\ result' = Err("InvalidPayload", "Ensure 'name', 'description', 'category', 'price', and 'stock' are provided.")
            /\ UNCHANGED productsStorage
       ELSE \E productId \in ProductIds \ DOMAIN productsStorage :
            /\ productsStorage' =
                 Insert(productsStorage, productId,
                        [sellerId |-> caller,
                         price |-> payload.price,
                         stock |-> payload.stock,
                         priceIsText |-> FALSE,
                         rating |-> 0,
                         status |-> IF payload.stock > 0 THEN "available" ELSE "out of stock",
                         escrowBalance |-> 0,
                         disputeStatus |-> FALSE,
                         buyerAddress |-> None])
            /\ result' = Ok("Product", "")

\* ---------------------------------------------------------------- reviews
ReviewsOf(store, productId) == {r \in DOMAIN store : store[r].productId = productId}

RECURSIVE SumRatings(_, _)
SumRatings(store, keys) ==
    IF keys = {} THEN 0
    ELSE LET k == FirstKey(keys)
         IN store[k].rating + SumRatings(store, keys \ {k})

\* totalRating / BigInt(reviews.length) over the reviews of the product
AverageRating(store, productId) ==
    SumRatings(store, ReviewsOf(store, productId)) \div Cardinality(ReviewsOf(store, productId))

addReview(caller, payload) ==
    /\ UNCHANGED << usersStorage, ordersStorage, storeChecksTypes >>
    /\ IF ~getUserByPrincipal(caller).ok
       THEN /\ result' = getUserByPrincipal(caller).err
            /\ UNCHANGED << productsStorage, reviewsStorage >>
       ELSE IF getUserByPrincipal(caller).user.role = "Seller"
       THEN /\ result' = Err("Error", "Only consumers can add reviews")
            /\ UNCHANGED << productsStorage, reviewsStorage >>
       ELSE IF payload.productId = 0 \/ payload.rating = 0 \/ payload.comment = ""
       THEN /\ result' = Err("InvalidPayload", "Ensure 'productId', 'rating', and 'comment' are provided.")
            /\ UNCHANGED << productsStorage, reviewsStorage >>
       ELSE IF payload.rating < MinRating \/ payload.rating > MaxRating
       THEN /\ result' = Err("InvalidPayload", "Rating must be between 1 and 5")
            /\ UNCHANGED << productsStorage, reviewsStorage >>
       ELSE IF payload.productId \notin DOMAIN productsStorage
       THEN /\ result' = Err("NotFound", "Product not found")
            /\ UNCHANGED << productsStorage, reviewsStorage >>
       ELSE \E reviewId \in ReviewIds \ DOMAIN reviewsStorage :
            /\ reviewsStorage' =
                 Insert(reviewsStorage, reviewId,
                        [productId |-> payload.productId,
                         userId |-> getUserByPrincipal(caller).id,
                         rating |-> payload.rating])
            /\ productsStorage' =
                 [productsStorage EXCEPT ![payload.productId].rating =
                      AverageRating(reviewsStorage', payload.productId)]
            /\ result' = Ok("Review", "")

\* --------------------------------------------------------------- checkout
\* mutant: the stock check is off by one
InsufficientStockOffByOne(product, item) == product.stock + 1 < item.quantity

\* product.stock < item.quantity
InsufficientStock(product, item) == product.stock < item.quantity

\* mutant: the quantity is left out of the line amount
LineAmountWithoutQuantity(product, item) == product.price

\* product.price * item.quantity
LineAmount(product, item) == product.price * item.quantity

\* The for loop of checkout from line i on: `products` is the products map
\* as written so far (every line reads the map again and inserts into it).
RECURSIVE CheckoutLoop(_, _, _, _, _)
CheckoutLoop(products, cartItems, i, totalAmount, productsInOrder) ==
    IF i > Len(cartItems)
    THEN [ret |-> "done", products |-> products, totalAmount |-> totalAmount,
          productsInOrder |-> productsInOrder]
    ELSE IF cartItems[i].productId \notin DOMAIN products
    THEN [ret |-> "NotFound", products |-> products, totalAmount |-> totalAmount,
          productsInOrder |-> productsInOrder]
    ELSE IF InsufficientStock(products[cartItems[i].productId], cartItems[i])
    THEN [ret |-> "Error", products |-> products, totalAmount |-> totalAmount,
          productsInOrder |-> productsInOrder]
    ELSE IF products[cartItems[i].productId].priceIsText
    THEN \* a text times a bigint throws a TypeError
         [ret |-> "Trap", products |-> products, totalAmount |-> totalAmount,
          productsInOrder |-> productsInOrder]
    ELSE CheckoutLoop(
             [products EXCEPT ![cartItems[i].productId].stock = @ - cartItems[i].quantity],
             cartItems, i + 1,
             totalAmount + LineAmount(products[cartItems[i].productId], cartItems[i]),
             Append(productsInOrder,
                    [productId |-> cartItems[i].productId,
                     quantity |-> cartItems[i].quantity,
                     price |-> products[cartItems[i].productId].price]))

\* mutant: the new order's key may be one already in use
AnyOrderId == OrderIds

\* uuidv4(): a key no stored order has
FreshOrderIds == OrderIds \ DOMAIN ordersStorage

\* A return, Ok or Err, commits the products written by the loop so far; a
\* throw commits nothing.
checkout(caller, cartItems) ==
    /\ UNCHANGED << usersStorage, reviewsStorage, storeChecksTypes >>
    /\ IF ~getUserByPrincipal(caller).ok
       THEN /\ result' = getUserByPrincipal(caller).err
            /\ UNCHANGED << productsStorage, ordersStorage >>
       ELSE IF getUserByPrincipal(caller).user.role = "Seller"
       THEN /\ result' = Err("Error", "Only consumers can create orders")
            /\ UNCHANGED << productsStorage, ordersStorage >>
       ELSE IF Len(cartItems) = 0
       THEN /\ result' = Err("InvalidPayload", "Cart is empty")
            /\ UNCHANGED << productsStorage, ordersStorage >>
       ELSE LET loop == CheckoutLoop(productsStorage, cartItems, 1, 0, << >>)
            IN IF loop.ret = "Trap"
               THEN /\ result' = Trapped
                    /\ UNCHANGED << productsStorage, ordersStorage >>
               ELSE IF loop.ret = "NotFound"
               THEN /\ result' = Err("NotFound", "Product not found: ")
                    /\ productsStorage' = loop.products
                    /\ UNCHANGED ordersStorage
               ELSE IF loop.ret = "Error"
               THEN /\ result' = Err("Error", "Insufficient stock for product: ")
                    /\ productsStorage' = loop.products
                    /\ UNCHANGED ordersStorage
               ELSE \E orderId \in FreshOrderIds :
                    /\ productsStorage' = loop.products
                    /\ ordersStorage' =
                         Insert(ordersStorage, orderId,
                                [buyerId |-> getUserByPrincipal(caller).id,
                                 products |-> loop.productsInOrder,
                                 totalAmount |-> loop.totalAmount,
                                 status |-> "pending"])
                    /\ result' = Ok("Order", "")

\* ----------------------------------------------------------------- escrow
add_to_escrow(productId, amount) ==
    /\ UNCHANGED << usersStorage, ordersStorage, reviewsStorage, storeChecksTypes >>
    /\ IF productId \notin DOMAIN productsStorage
       THEN /\ result' = Err("NotFound", "Product not found")
            /\ UNCHANGED productsStorage
       ELSE IF ~IsBigIntText(amount)
       THEN /\ result' = Trapped
            /\ UNCHANGED productsStorage
       ELSE LET balance == productsStorage[productId].escrowBalance + BigInt(amount)
            IN /\ balance \in -MaxEscrow..MaxEscrow
               /\ IF InsertThrows(IsNat64(balance))
                  THEN /\ result' = Trapped
                       /\ UNCHANGED productsStorage
                  ELSE /\ productsStorage' =
                            [productsStorage EXCEPT ![productId].escrowBalance = balance]
                       /\ result' = Ok("Success", "Escrow balance updated.")

\* product.status !== "sold"
NotSold(product) == product.status # "sold"

\* mutant: the dispute check is left out
DisputeNeverUnresolved(product) == FALSE

\* product.disputeStatus === true
DisputeUnresolved(product) == product.disputeStatus = TRUE

\* The balance is set to the text "0", not to a nat64: a store that checks
\* types throws on it; otherwise it is kept, and every later read of the
\* balance goes through BigInt(...), which gives 0.
release_payment(productId) ==
    /\ UNCHANGED << usersStorage, ordersStorage, reviewsStorage, storeChecksTypes >>
    /\ IF productId \notin DOMAIN productsStorage
       THEN /\ result' = Err("NotFound", "Product not found")
            /\ UNCHANGED productsStorage
       ELSE IF NotSold(productsStorage[productId])
       THEN /\ result' = Err("Error", "Product has not been sold yet.")
            /\ UNCHANGED productsStorage
       ELSE IF DisputeUnresolved(productsStorage[productId])
       THEN /\ result' = Err("Error", "Dispute unresolved, cannot release payment.")
            /\ UNCHANGED productsStorage
       ELSE IF InsertThrows(FALSE)
       THEN /\ result' = Trapped
            /\ UNCHANGED productsStorage
       ELSE /\ productsStorage' =
                 [productsStorage EXCEPT ![productId].escrowBalance = BigInt("0")]
            /\ result' = Ok("Success", "Payment released.")

withdraw_from_escrow(productId, amount) ==
    /\ UNCHANGED << usersStorage, ordersStorage, reviewsStorage, storeChecksTypes >>
    /\ IF productId \notin DOMAIN productsStorage
       THEN /\ result' = Err("NotFound", "Product not found")
            /\ UNCHANGED productsStorage
       ELSE IF ~IsBigIntText(amount)
       THEN /\ result' = Trapped
            /\ UNCHANGED productsStorage
       ELSE IF productsStorage[productId].escrowBalance < BigInt(amount)
       THEN /\ result' = Err("Error", "Insufficient escrow balance.")
            /\ UNCHANGED productsStorage
       ELSE LET balance == productsStorage[productId].escrowBalance - BigInt(amount)
            IN /\ balance \in -MaxEscrow..MaxEscrow
               /\ IF InsertThrows(IsNat64(balance))
                  THEN /\ result' = Trapped
                       /\ UNCHANGED productsStorage
                  ELSE /\ productsStorage' =
                            [productsStorage EXCEPT ![productId].escrowBalance = balance]
                       /\ result' = Ok("Success", "Amount withdrawn from escrow.")


\* ---------------------------------------------------------------- dispute
dispute_product(productId) ==
    /\ UNCHANGED << usersStorage, ordersStorage, reviewsStorage, storeChecksTypes >>
    /\ IF productId \notin DOMAIN productsStorage
       THEN /\ result' = Err("NotFound", "Product not found")
            /\ UNCHANGED productsStorage
       ELSE /\ productsStorage' =
                 [productsStorage EXCEPT ![productId].disputeStatus = TRUE,
                                         ![productId].status = "dispute raised"]
            /\ result' = Ok("Success", "Dispute raised successfully.")

\* mutant: a dispute is never looked for
AlwaysADisputeToResolve(product) == FALSE

\* !product.disputeStatus
NoDisputeToResolve(product) == ~product.disputeStatus

resolve_dispute(productId, resolution) ==
    /\ UNCHANGED << usersStorage, ordersStorage, reviewsStorage, storeChecksTypes >>
    /\ IF productId \notin DOMAIN productsStorage
       THEN /\ result' = Err("NotFound", "Product not found")
            /\ UNCHANGED productsStorage
       ELSE IF NoDisputeToResolve(productsStorage[productId])
       THEN /\ result' = Err("Error", "No dispute to resolve.")
            /\ UNCHANGED productsStorage
       ELSE /\ productsStorage' =
                 [productsStorage EXCEPT
                      ![productId].disputeStatus = FALSE,
                      ![productId].status =
                          IF resolution THEN "dispute resolved - funds to seller"
                          ELSE "dispute resolved - funds to buyer"]
            /\ result' = Ok("Success", "Dispute resolved.")

\* ------------------------------------------------------------ sale and bid
\* mutant: only a product already sold is refused
OnlyRefusedWhenSold(product) == product.status = "sold"

\* product.status !== "Bid Accepted"
BidNotAccepted(product) == product.status # "Bid Accepted"

mark_product_sold(productId) ==
    /\ UNCHANGED << usersStorage, ordersStorage, reviewsStorage, storeChecksTypes >>
    /\ IF productId \notin DOMAIN productsStorage
       THEN /\ result' = Err("NotFound", "Product not found")
            /\ UNCHANGED productsStorage
       ELSE IF BidNotAccepted(productsStorage[productId])
       THEN /\ result' = Err("Error", "Bid not accepted or product already sold.")
            /\ UNCHANGED productsStorage
       ELSE /\ productsStorage' = [productsStorage EXCEPT ![productId].status = "sold"]
            /\ result' = Ok("Success", "Product marked as sold.")

\* `if (product.buyerAddress)` tests the Opt value itself.  On success the
\* bare text is written where an Opt(text) is declared.
product_bid(productId, buyerAddress) ==
    /\ UNCHANGED << usersStorage, ordersStorage, reviewsStorage, storeChecksTypes >>
    /\ IF productId \notin DOMAIN productsStorage
       THEN /\ result' = Err("NotFound", "Product not found")
            /\ UNCHANGED productsStorage
       ELSE IF Truthy(productsStorage[productId].buyerAddress)
       THEN /\ result' = Err("Error", "Product has already been bid on.")
            /\ UNCHANGED productsStorage
       ELSE IF InsertThrows(FALSE)
       THEN /\ result' = Trapped
            /\ UNCHANGED productsStorage
       ELSE /\ productsStorage' =
                 [productsStorage EXCEPT ![productId].buyerAddress = Str(buyerAddress),
                                         ![productId].status = "Bid Placed"]
            /\ result' = Ok("Success", "Bid placed successfully.")

accept_bid(productId) ==
    /\ UNCHANGED << usersStorage, ordersStorage, reviewsStorage, storeChecksTypes >>
    /\ IF productId \notin DOMAIN productsStorage
       THEN /\ result' = Err("NotFound", "Product not found")
            /\ UNCHANGED productsStorage
       ELSE IF ~Truthy(productsStorage[productId].buyerAddress)
       THEN /\ result' = Err("Error", "No bid to accept.")
            /\ UNCHANGED productsStorage
       ELSE /\ productsStorage' =
                 [productsStorage EXCEPT ![productId].status = "Bid Accepted"]
            /\ result' = Ok("Success", "Bid accepted successfully.")

update_product_status(productId, status) ==
    /\ UNCHANGED << usersStorage, ordersStorage, reviewsStorage, storeChecksTypes >>
    /\ IF productId \notin DOMAIN productsStorage
       THEN /\ result' = Err("NotFound", "Product not found")
            /\ UNCHANGED productsStorage
       ELSE /\ productsStorage' = [productsStorage EXCEPT ![productId].status = status]
            /\ result' = Ok("Success", "Product status updated.")

\* ---------------------------------------------------------------- updates
\* The text is written where a nat64 is declared: a store that checks types
\* throws on it; otherwise it is kept.  Nothing reads the rating back, and
\* the model holds the number the text denotes.
rate_product(productId, rating) ==
    /\ UNCHANGED << usersStorage, ordersStorage, reviewsStorage, storeChecksTypes >>
    /\ IF productId \notin DOMAIN productsStorage
       THEN /\ result' = Err("NotFound", "Product not found")
            /\ UNCHANGED productsStorage
       ELSE IF InsertThrows(FALSE)
       THEN /\ result' = Trapped
            /\ UNCHANGED productsStorage
       ELSE /\ productsStorage' =
                 [productsStorage EXCEPT ![productId].rating = BigInt(rating)]
            /\ result' = Ok("Success", "Product rated successfully.")

\* As rate_product, for the price; checkout reads the price back, so the
\* model keeps that the field holds a text (priceIsText).
update_product_price(productId, price) ==
    /\ UNCHANGED << usersStorage, ordersStorage, reviewsStorage, storeChecksTypes >>
    /\ IF productId \notin DOMAIN productsStorage
       THEN /\ result' = Err("NotFound", "Product not found")
            /\ UNCHANGED productsStorage
       ELSE IF InsertThrows(FALSE)
       THEN /\ result' = Trapped
            /\ UNCHANGED productsStorage
       ELSE /\ productsStorage' =
                 [productsStorage EXCEPT ![productId].price = BigInt(price),
                                         ![productId].priceIsText = TRUE]
            /\ result' = Ok("Success", "Product price updated.")

\* ------------------------------------------------------------------- Next
Next ==
    \/ \E caller \in Principals, payload \in UserPayloads : registerUser(caller, payload)
    \/ \E caller \in Principals, payload \in UserPayloads : updateUserProfile(caller, payload)
    \/ \E caller \in Principals, payload \in ProductPayloads : addProduct(caller, payload)
    \/ \E caller \in Principals, payload \in ReviewPayloads : addReview(caller, payload)
    \/ \E caller \in Principals, cartItems \in Carts : checkout(caller, cartItems)
    \/ \E productId \in ProductIdInputs, amount \in AmountTexts : add_to_escrow(productId, amount)
    \/ \E productId \in ProductIdInputs : release_payment(productId)
    \/ \E productId \in ProductIdInputs, amount \in AmountTexts :
          withdraw_from_escrow(productId, amount)
    \/ \E productId \in ProductIdInputs : dispute_product(productId)
    \/ \E productId \in ProductIdInputs, resolution \in BOOLEAN :
          resolve_dispute(productId, resolution)
    \/ \E productId \in ProductIdInputs : mark_product_sold(productId)
    \/ \E productId \in ProductIdInputs, buyerAddress \in BuyerAddresses :
          product_bid(productId, buyerAddress)
    \/ \E productId \in ProductIdInputs : accept_bid(productId)
    \/ \E productId \in ProductIdInputs, status \in StatusTexts :
          update_product_status(productId, status)
    \/ \E productId \in ProductIdInputs, rating \in RatingTexts :
          rate_product(productId, rating)
    \/ \E productId \in ProductIdInputs, price \in PriceTexts :
          update_product_price(productId, price)

Spec == Init /\ [][Next]_vars

\* ------------------------------------------------------------------ claims
\* the product as stored before and after the step
Before(productId) == productsStorage[productId]

After(productId) == productsStorage'[productId]

Exists(productId) == productId \in DOMAIN productsStorage

\* the units of productId a cart asks for, over all its lines
RECURSIVE TotalQuantity(_, _)
TotalQuantity(items, productId) ==
    IF items = << >> THEN 0
    ELSE (IF Head(items).productId = productId THEN Head(items).quantity ELSE 0)
             + TotalQuantity(Tail(items), productId)

\* the sum over line items of price x quantity
RECURSIVE SumOfLines(_)
SumOfLines(items) ==
    IF items = << >> THEN 0
    ELSE Head(items).price * Head(items).quantity + SumOfLines(Tail(items))

\* C1: checkout is all-or-nothing: a checkout that returns an error leaves the
\* stock of every product as it was and persists no order.
C1_CheckoutAllOrNothing ==
    [][ \A caller \in Principals, cartItems \in Carts :
            (checkout(caller, cartItems) /\ ~result'.ok)
                => /\ productsStorage' = productsStorage
                   /\ ordersStorage' = ordersStorage ]_vars

C3_LifecycleStep(productId) ==
    \/ \E buyerAddress \in BuyerAddresses : product_bid(productId, buyerAddress)
    \/ accept_bid(productId)
    \/ mark_product_sold(productId)
    \/ \E caller \in Principals, cartItems \in Carts : checkout(caller, cartItems)
    \/ \E amount \in AmountTexts : add_to_escrow(productId, amount)
    \/ \E amount \in AmountTexts : withdraw_from_escrow(productId, amount)
    \/ release_payment(productId)

C3_DisputedStaysDisputeRaised ==
    [][ \A productId \in ProductIds :
            ( /\ Exists(productId)
              /\ Before(productId).disputeStatus
              /\ Before(productId).status = "dispute raised"
              /\ C3_LifecycleStep(productId)
              /\ After(productId).disputeStatus )
                => After(productId).status = "dispute raised" ]_vars

\* C4: withdraw_from_escrow succeeds only when 0 < amount <= escrowBalance and
\* then takes exactly amount off the balance; with any other amount it fails
\* and leaves the product as it was.
C4_WithdrawGuarded ==
    [][ \A productId \in ProductIds, amount \in AmountTexts :
            (Exists(productId) /\ withdraw_from_escrow(productId, amount))
                => IF result'.ok
                   THEN /\ IsBigIntText(amount)
                        /\ 0 < BigInt(amount)
                        /\ BigInt(amount) <= Before(productId).escrowBalance
                        /\ After(productId).escrowBalance
                               = Before(productId).escrowBalance - BigInt(amount)
                   ELSE productsStorage' = productsStorage ]_vars

C6_BidOnlyWhenUnset ==
    [][ \A productId \in ProductIds, buyerAddress \in BuyerAddresses :
            (Exists(productId) /\ product_bid(productId, buyerAddress))
                => /\ result'.ok <=> (Before(productId).buyerAddress = None)
                   /\ result'.ok =>
                          /\ After(productId).buyerAddress.val = buyerAddress
                          /\ After(productId).status = "Bid Placed"
                   /\ ~result'.ok => productsStorage' = productsStorage ]_vars

\* C7: a successful checkout persists exactly one new order, pending, whose
\* totalAmount is the sum over its line items of price x quantity, each line
\* carrying the cart line's product and quantity and the product's price; it
\* takes from each product's stock the total quantity ordered of it and
\* changes no other field of any product.
C7_CheckoutOrderAndStock ==
    [][ result' = Ok("Order", "") =>
          \A caller \in Principals, cartItems \in Carts :
            checkout(caller, cartItems)
                => /\ \E orderId \in OrderIds \ DOMAIN ordersStorage :
                          /\ DOMAIN ordersStorage' = DOMAIN ordersStorage \cup {orderId}
                          /\ \A other \in DOMAIN ordersStorage :
                                 ordersStorage'[other] = ordersStorage[other]
                          /\ ordersStorage'[orderId].status = "pending"
                          /\ Len(ordersStorage'[orderId].products) = Len(cartItems)
                          /\ \A i \in 1..Len(cartItems) :
                                 /\ ordersStorage'[orderId].products[i].productId
                                        = cartItems[i].productId
                                 /\ ordersStorage'[orderId].products[i].quantity
                                        = cartItems[i].quantity
                                 /\ ordersStorage'[orderId].products[i].price
                                        = Before(cartItems[i].productId).price
                          /\ ordersStorage'[orderId].totalAmount
                                 = SumOfLines(ordersStorage'[orderId].products)
                   /\ DOMAIN productsStorage' = DOMAIN productsStorage
                   /\ \A productId \in DOMAIN productsStorage :
                          After(productId) =
                              [Before(productId) EXCEPT
                                   !.stock = @ - TotalQuantity(cartItems, productId)] ]_vars

\* C7 witness: the scenario of the claim at the model's bounds: a product
\* listed with stock MaxStock at price MaxPrice, one line of quantity 2 ordered
C7_OrderPlaced ==
    /\ result = Ok("Order", "")
    /\ \E orderId \in DOMAIN ordersStorage, productId \in DOMAIN productsStorage :
           /\ ordersStorage[orderId].products
                  = << [productId |-> productId, quantity |-> 2, price |-> MaxPrice] >>
           /\ ordersStorage[orderId].totalAmount = 2 * MaxPrice
           /\ productsStorage[productId].stock = MaxStock - 2
           /\ productsStorage[productId].status = "available"

\* C8: a checkout succeeds only if, for every product, the quantities of all
\* the cart's lines naming it sum to at most the product's stock before the
\* call.
C8_DuplicateLinesCumulative ==
    [][ result' = Ok("Order", "") =>
          \A caller \in Principals, cartItems \in Carts :
            checkout(caller, cartItems)
                => \A productId \in DOMAIN productsStorage :
                       TotalQuantity(cartItems, productId) <= Before(productId).stock ]_vars

\* C8 witness: an order with two lines naming the same product was placed
C8_DuplicateLinesOrdered ==
    /\ result = Ok("Order", "")
    /\ \E orderId \in DOMAIN ordersStorage :
           /\ Len(ordersStorage[orderId].products) = 2
           /\ ordersStorage[orderId].products[1].productId
                  = ordersStorage[orderId].products[2].productId

\* C9: add_to_escrow succeeds only when amount > 0 and then adds exactly
\* amount to the balance; with amount <= 0 it fails and leaves the product as
\* it was.
C9_DepositGuarded ==
    [][ \A productId \in ProductIds, amount \in AmountTexts :
            (Exists(productId) /\ add_to_escrow(productId, amount))
                => IF result'.ok
                   THEN /\ IsBigIntText(amount)
                        /\ BigInt(amount) > 0
                        /\ After(productId).escrowBalance
                               = Before(productId).escrowBalance + BigInt(amount)
                   ELSE productsStorage' = productsStorage ]_vars

\* C10: mark_product_sold succeeds only on a product whose status is
\* "Bid Accepted" and then sets the status to "sold", changing nothing else,
\* so that the same call on it right after is refused; from any other status it
\* fails and leaves every product as it was.
C10_MarkSoldOnlyFromBidAccepted ==
    [][ \A productId \in ProductIdInputs :
            mark_product_sold(productId)
                => IF result'.ok
                   THEN /\ Exists(productId)
                        /\ Before(productId).status = "Bid Accepted"
                        /\ productsStorage' =
                               [productsStorage EXCEPT ![productId].status = "sold"]
                        /\ After(productId).status # "Bid Accepted"
                   ELSE productsStorage' = productsStorage ]_vars

\* C10 witness: a product was marked sold
C10_MarkedSold ==
    /\ result = Ok("Success", "Product marked as sold.")
    /\ \E productId \in DOMAIN productsStorage :
           productsStorage[productId].status = "sold"

\* C11: accept_bid succeeds only on a product whose buyerAddress is set and
\* then sets the status to "Bid Accepted"; on a product that never received a
\* bid (buyerAddress None, as addProduct leaves it) it fails and leaves the
\* product as it was.
C11_AcceptOnlyWithBid ==
    [][ \A productId \in ProductIds :
            (Exists(productId) /\ accept_bid(productId))
                => /\ result'.ok =>
                          /\ Before(productId).buyerAddress # None
                          /\ After(productId).status = "Bid Accepted"
                   /\ Before(productId).buyerAddress = None =>
                          /\ ~result'.ok
                          /\ productsStorage' = productsStorage ]_vars

\* C12: resolve_dispute succeeds only on a product whose disputeStatus is
\* true; it then clears disputeStatus and sets the status to "dispute
\* resolved - funds to seller" or "... to buyer" as the flag says, changing
\* nothing else, so that the same call right after is refused; when
\* disputeStatus is false it fails and leaves every product as it was.
C12_ResolveOnlyDisputed ==
    [][ \A productId \in ProductIdInputs, resolution \in BOOLEAN :
            resolve_dispute(productId, resolution)
                => IF result'.ok
                   THEN /\ Exists(productId)
                        /\ Before(productId).disputeStatus = TRUE
                        /\ productsStorage' =
                               [productsStorage EXCEPT
                                    ![productId].disputeStatus = FALSE,
                                    ![productId].status =
                                        IF resolution
                                        THEN "dispute resolved - funds to seller"
                                        ELSE "dispute resolved - funds to buyer"]
                   ELSE productsStorage' = productsStorage ]_vars

\* C12 witness: a dispute was resolved in favour of the buyer
C12_Resolved ==
    /\ result = Ok("Success", "Dispute resolved.")
    /\ \E productId \in DOMAIN productsStorage :
           /\ productsStorage[productId].status = "dispute resolved - funds to buyer"
           /\ ~productsStorage[productId].disputeStatus

C14_AddProductInitialStatus ==
    [][ \A caller \in Principals, payload \in ProductPayloads :
            ( /\ addProduct(caller, payload)
              /\ isUserSeller(caller).ok
              /\ isUserSeller(caller).seller
              /\ payload.name # ""
              /\ payload.description # ""
              /\ payload.price > 0 )
                => /\ result'.ok
                   /\ \E productId \in DOMAIN productsStorage' \ DOMAIN productsStorage :
                          /\ After(productId).stock = payload.stock
                          /\ After(productId).status =
                                 IF payload.stock > 0 THEN "available" ELSE "out of stock"
                          /\ After(productId).escrowBalance = 0
                          /\ After(productId).disputeStatus = FALSE
                          /\ After(productId).buyerAddress = None ]_vars

\* C15: orders are created only by checkout and never change afterwards:
\* every stored order is still stored, with the same line items, totalAmount,
\* buyerId and status, after any step, and the order map changes only in a
\* step that is a checkout.
C15_OrdersImmutable ==
    [][ /\ \A orderId \in DOMAIN ordersStorage :
               /\ orderId \in DOMAIN ordersStorage'
               /\ ordersStorage'[orderId] = ordersStorage[orderId]
        /\ ordersStorage' # ordersStorage
               => \E caller \in Principals, cartItems \in Carts :
                      checkout(caller, cartItems) ]_vars

\* C15 witness: an order is stored and the price of one of its products was
\* changed afterwards
C15_OrderKeptAfterPriceUpdate ==
    /\ result = Ok("Success", "Product price updated.")
    /\ \E orderId \in DOMAIN ordersStorage, productId \in DOMAIN productsStorage :
           /\ TotalQuantity(ordersStorage[orderId].products, productId) > 0
           /\ productsStorage[productId].priceIsText

\* the caller is a registered Seller and the seller-of-record of the product
SellerOfRecord(caller, productId) ==
    /\ isUserSeller(caller).ok
    /\ isUserSeller(caller).seller
    /\ productsStorage[productId].sellerId = caller

\* a call of one of the five lifecycle transitions on the product; none of
\* them reads the caller, so the step is the same whoever calls
LifecycleCall(productId) ==
    \/ \E buyerAddress \in BuyerAddresses : product_bid(productId, buyerAddress)
    \/ accept_bid(productId)
    \/ mark_product_sold(productId)
    \/ dispute_product(productId)
    \/ \E resolution \in BOOLEAN : resolve_dispute(productId, resolution)

\* C16: a lifecycle transition (product_bid, accept_bid, mark_product_sold,
\* dispute_product, resolve_dispute) called by an identity that is not the
\* registered seller-of-record of the product leaves the product unchanged.
C16_LifecycleOnlyBySeller ==
    [][ \A productId \in ProductIds, caller \in Principals :
            ( /\ Exists(productId)
              /\ ~SellerOfRecord(caller, productId)
              /\ LifecycleCall(productId) )
                => productsStorage' = productsStorage ]_vars

\* C17: a product enters status "sold" only by a successful mark_product_sold
\* from "Bid Accepted", and enters "Bid Accepted" only by a successful
\* accept_bid on a product that holds a bid (a successful product_bid set its
\* buyerAddress); so release_payment empties the escrow only of a product
\* that was bid on and accepted.
C17_SoldOnlyThroughBid ==
    [][ \A productId \in ProductIds :
            Exists(productId)
                => /\ (Before(productId).status # "sold" /\ After(productId).status = "sold")
                          => /\ result' = Ok("Success", "Product marked as sold.")
                             /\ Before(productId).status = "Bid Accepted"
                   /\ (Before(productId).status # "Bid Accepted"
                           /\ After(productId).status = "Bid Accepted")
                          => /\ result' = Ok("Success", "Bid accepted successfully.")
                             /\ Before(productId).buyerAddress # None
                   /\ result' = Ok("Success", "Payment released.")
                          => Before(productId).buyerAddress # None ]_vars

\* the units of the product over the line items of the orders `keys`
RECURSIVE OrderedQuantity(_, _, _)
OrderedQuantity(store, keys, productId) ==
    IF keys = {} THEN 0
    ELSE LET k == FirstKey(keys)
         IN TotalQuantity(store[k].products, productId)
                + OrderedQuantity(store, keys \ {k}, productId)

\* C18: stock conservation: no step changes, for any product, the sum of its
\* current stock and of its quantities over the line items of all stored
\* orders (the sum a product starts with is the stock given at addProduct).
C18_StockConserved ==
    [][ \A productId \in ProductIds :
            Exists(productId)
                => Before(productId).stock
                       + OrderedQuantity(ordersStorage, DOMAIN ordersStorage, productId)
                   = After(productId).stock
                       + OrderedQuantity(ordersStorage', DOMAIN ordersStorage', productId) ]_vars

\* C20: in every state a product whose status is "available" has stock > 0.
C20_AvailableHasStock ==
    \A productId \in DOMAIN productsStorage :
        productsStorage[productId].status = "available"
            => productsStorage[productId].stock > 0

\* No product ever holds a bid: product_bid refuses every product (None is
\* truthy), so buyerAddress stays as addProduct wrote it.
BuyerAddressNeverSet ==
    \A productId \in DOMAIN productsStorage :
        productsStorage[productId].buyerAddress = None

====
